---- MODULE Spec2Model ----
(***************************************************************************)
(* State-machine model of the LiquidBackground particle engine             *)
(* (src/liquid-bg.js) and of the page script around it.                    *)
(*                                                                         *)
(* Numbers.  JavaScript numbers are modelled in fixed point: a length of   *)
(* one CSS pixel is Unit integer units, products and quotients are rounded *)
(* to the nearest unit.  Angles are integers in centiradians, so that the  *)
(* time accumulator (0.01 rad per tick) is exactly the number of ticks.    *)
(* Math.random() returns r / RandDen for an integer r in 0 .. RandDen-1.   *)
(*                                                                         *)
(* Drawing.  Of the canvas only the points at which the glows are drawn    *)
(* are modelled (variable trace); the pixel buffer that addNoise works on  *)
(* is modelled on its own (variables imageData, written).                  *)
(*                                                                         *)
(* Document.  The DOMContentLoaded handler that mounts the engine is       *)
(* modelled by SpecMount (variable page); the page script                  *)
(* (src/unnamed/part_000: mobile menu, counter animation) by SpecPage      *)
(* (variables menu, counter).  The engine and the page script share no     *)
(* state.                                                                  *)
(***************************************************************************)
EXTENDS Integers, Sequences, FiniteSets, TLC

VARIABLES
    container,   \* the mount container: [offsetWidth, offsetHeight], in px
    hidden,      \* document.hidden
    width,       \* this.width, in px
    height,      \* this.height, in px
    particles,   \* this.particles: a sequence of particle records
    mouse,       \* this.mouse: [x, y, targetX, targetY], in units
    time,        \* this.time, in centiradians (one per tick)
    isRunning,   \* this.isRunning
    pending,     \* frame callbacks requested and not yet fired
    epoch,       \* which createParticles run allocated this.particles, modulo 2
    ptrLog,      \* history: this.mouse before the last tick
    trace,       \* the canvas: what the last tick computed and drew, per particle
    imageData,   \* the pixel buffer addNoise reads and writes
    written,     \* history: the buffer indices addNoise assigned
    page,        \* the document: DOM-ready reached, .hero-bg present, what was built
    menu,        \* the mobile menu: classes, body overflow, aria-expanded, last event
    counter      \* one .stat-number[data-count] element and its interval timer

vars == <<container, hidden, width, height, particles, mouse, time, isRunning,
          pending, epoch, ptrLog, trace, imageData, written, page, menu, counter>>

----------------------------------------------------------------------------
(* Bounds of the model *)

\* number of particles (80 in the source, line 14); particles do not interact
particleCount == 2
\* ticks explored by Spec
MaxTicks == 3
\* ticks explored by SpecSmooth
MaxSmoothTicks == 272
\* pixels of the buffers explored by SpecNoise
MaxPixels == 9
\* outstanding frame callbacks explored by Spec
MaxPending == 2

----------------------------------------------------------------------------
(* Fixed-point arithmetic *)

\* units per pixel
Unit == 20
\* Math.random() = r / RandDen
RandDen == 1000
\* Math.PI, in centiradians
PI == 314

Abs(n) == IF n < 0 THEN -n ELSE n

\* n / d rounded to the nearest integer, ties away from zero (d > 0)
Round(n, d) == IF n >= 0 THEN (n + d \div 2) \div d ELSE -((-n + d \div 2) \div d)

RECURSIVE SqrtSearch(_, _, _)
SqrtSearch(n, lo, hi) ==
    IF lo >= hi THEN lo
    ELSE LET mid == (lo + hi + 1) \div 2
         IN  IF mid * mid <= n THEN SqrtSearch(n, mid, hi)
                               ELSE SqrtSearch(n, lo, mid - 1)

\* Math.sqrt, rounded down to a unit
Sqrt(n) == SqrtSearch(n, 0, IF n < 46340 THEN n ELSE 46340)

\* sine of a first-half-turn angle x (0 <= x <= PI), times 1000
\* (Bhaskara's rational approximation, exact at 0, PI/2 and PI)
SinHalfTurn(x) == Round(16000 * (x * (PI - x)), 5 * PI * PI - 4 * (x * (PI - x)))

\* Math.sin of an angle in centiradians, times 1000
Sin(a) ==
    LET r == a % (2 * PI)
    IN  IF r <= PI THEN SinHalfTurn(r) ELSE -SinHalfTurn(r - PI)

\* Math.cos of an angle in centiradians, times 1000
Cos(a) == Sin(a + PI \div 2)

----------------------------------------------------------------------------
(* Program constants *)

\* colors (lines 21-27)
colors == << "rgba(139, 92, 246, 0.6)", "rgba(99, 102, 241, 0.5)",
             "rgba(79, 70, 229, 0.4)", "rgba(124, 58, 237, 0.5)",
             "rgba(67, 56, 202, 0.3)" >>

\* const maxDist = 400 (px)
maxDist == 400
\* size: Math.random() * 150 + 80 (px)
SizeRange == 150
SizeMin == 80
\* amplitude: Math.random() * 50 + 30 (px)
AmplitudeRange == 50
AmplitudeMin == 30
\* smooth mouse follow: * 0.05, as a percentage
SmoothPercent == 5
\* mouse interaction: * 0.02, as a percentage
ForcePercent == 2
\* Math.cos(this.time * 0.8 + ...), in tenths
CosTimeTenths == 8

----------------------------------------------------------------------------
(* Inputs *)

\* container sizes (offsetWidth, offsetHeight), px
Dims == { [offsetWidth |-> 200, offsetHeight |-> 200],
          [offsetWidth |-> 320, offsetHeight |-> 120] }

\* pointer positions (clientX, clientY), px
Points == { [clientX |-> 1000, clientY |-> 1000],
            [clientX |-> 150, clientY |-> 60] }

\* touch lists of a touchmove event
TouchLists ==
    { << >>,
      << [clientX |-> 150, clientY |-> 60] >>,
      << [clientX |-> 1000, clientY |-> 1000], [clientX |-> 150, clientY |-> 60] >> }

\* outcomes of the ten Math.random() calls that create one particle, in call
\* order: x, y, baseX, baseY, size, speedX, speedY, color, phase, amplitude
RandomDraws ==
    << << 0, 0, 0, 0, 0, 500, 500, 0, 0, 0 >>,
       << 999, 500, 999, 500, 0, 999, 500, 999, 250, 999 >>,
       << 500, 999, 500, 999, 999, 0, 999, 400, 750, 500 >> >>

\* outcomes of the Math.random() calls of one createParticles run: per
\* iteration of its loop, one of the sampled outcomes above
RandomRuns ==
    { [ i \in 1 .. particleCount |-> RandomDraws[((k + i) % Len(RandomDraws)) + 1] ] :
        k \in 1 .. Len(RandomDraws) }

----------------------------------------------------------------------------
(* createParticles *)

\* a particle whose position is scaled by the wrong viewport dimension
NewParticleSwapped(w, h, d, id) ==
    [ id        |-> id,
      x         |-> (d[1] * (h * Unit)) \div RandDen,
      y         |-> (d[2] * (w * Unit)) \div RandDen,
      baseX     |-> (d[3] * (w * Unit)) \div RandDen,
      baseY     |-> (d[4] * (h * Unit)) \div RandDen,
      size      |-> (d[5] * (SizeRange * Unit)) \div RandDen + SizeMin * Unit,
      speedX    |-> Round((2 * d[6] - RandDen) * Unit, 4 * RandDen),
      speedY    |-> Round((2 * d[7] - RandDen) * Unit, 4 * RandDen),
      color     |-> colors[(d[8] * Len(colors)) \div RandDen + 1],
      phase     |-> (d[9] * (2 * PI)) \div RandDen,
      amplitude |-> (d[10] * (AmplitudeRange * Unit)) \div RandDen + AmplitudeMin * Unit ]

\* one pushed particle.  id stands for the identity of the object: the run
\* that allocated it and its index.  Only the arrays of two successive runs
\* are ever compared, so the run is counted modulo 2.
NewParticle(w, h, d, id) ==
    [ id        |-> id,
      x         |-> (d[1] * (w * Unit)) \div RandDen,
      y         |-> (d[2] * (h * Unit)) \div RandDen,
      baseX     |-> (d[3] * (w * Unit)) \div RandDen,
      baseY     |-> (d[4] * (h * Unit)) \div RandDen,
      size      |-> (d[5] * (SizeRange * Unit)) \div RandDen + SizeMin * Unit,
      speedX    |-> Round((2 * d[6] - RandDen) * Unit, 4 * RandDen),
      speedY    |-> Round((2 * d[7] - RandDen) * Unit, 4 * RandDen),
      color     |-> colors[(d[8] * Len(colors)) \div RandDen + 1],
      phase     |-> (d[9] * (2 * PI)) \div RandDen,
      amplitude |-> (d[10] * (AmplitudeRange * Unit)) \div RandDen + AmplitudeMin * Unit ]

\* createParticles with the loop running once too often (i <= particleCount)
createParticlesOffByOne(w, h, draws, run) ==
    [ i \in 1 .. particleCount + 1 |->
        NewParticle(w, h, draws[((i - 1) % particleCount) + 1], <<run, i>>) ]

\* the array createParticles leaves in this.particles; draws[i] are the random
\* outcomes of iteration i, run is the number of the run
createParticles(w, h, draws, run) ==
    [ i \in 1 .. particleCount |-> NewParticle(w, h, draws[i], <<run, i>>) ]

----------------------------------------------------------------------------
(* animate *)

\* a smooth follow that steps away from the target (- for +)
SmoothFollowAway(m) ==
    [ m EXCEPT !.x = @ - Round((m.targetX - @) * SmoothPercent, 100),
               !.y = @ - Round((m.targetY - @) * SmoothPercent, 100) ]

\* smooth mouse follow (lines 100-101)
SmoothFollow(m) ==
    [ m EXCEPT !.x = @ + Round((m.targetX - @) * SmoothPercent, 100),
               !.y = @ + Round((m.targetY - @) * SmoothPercent, 100) ]

\* dist (line 120), capped at maxDist: only dist < maxDist is ever used
Dist(dx, dy) ==
    IF Abs(dx) >= maxDist * Unit \/ Abs(dy) >= maxDist * Unit
    THEN maxDist * Unit
    ELSE LET d == Sqrt(dx * dx + dy * dy)
         IN  IF d < maxDist * Unit THEN d ELSE maxDist * Unit

\* force computed as dist / maxDist
ForceGrowing(dist) == IF dist < maxDist * Unit THEN dist ELSE 0

\* force (line 124) as the numerator of a fraction over maxDist * Unit;
\* 0 when the branch of line 123 is not taken
Force(dist) == IF dist < maxDist * Unit THEN maxDist * Unit - dist ELSE 0

\* the displacement with its sign reversed (+= for -=)
PushReversed(d, force) == -Round(d * force * ForcePercent, 100 * (maxDist * Unit))

\* the displacement subtracted in lines 125-126
Push(d, force) == Round(d * force * ForcePercent, 100 * (maxDist * Unit))

\* a clamp to the margin instead of a wrap to the opposite side
WrapClamps(v, size, extent) ==
    IF v < -size THEN -size ELSE IF v > extent + size THEN extent + size ELSE v

\* a wrap that forgets the upper bound
WrapLowOnly(v, size, extent) == IF v < -size THEN extent + size ELSE v

\* boundary wrap of one coordinate (lines 130-131, 132-133)
Wrap(v, size, extent) ==
    LET a == IF v < -size THEN extent + size ELSE v
    IN  IF a > extent + size THEN -size ELSE a

\* one iteration of the forEach body (lines 109-158) for particle p, with the
\* smoothed pointer m and the time t already advanced: the updated particle
\* and what the iteration computed and drew
UpdateParticle(p, m, t, w, h) ==
    LET bx == p.x + p.speedX
        by == p.y + p.speedY
        oscillateX == Round(Sin(t + p.phase) * p.amplitude, 1000)
        oscillateY == Round(Cos(Round(t * CosTimeTenths, 10) + p.phase) * p.amplitude, 1000)
        dx == m.x - bx
        dy == m.y - by
        dist == Dist(dx, dy)
        force == Force(dist)
        fx == bx - Push(dx, force)
        fy == by - Push(dy, force)
        nx == Wrap(fx, p.size, w * Unit)
        ny == Wrap(fy, p.size, h * Unit)
    IN  [ particle |-> [ p EXCEPT !.x = nx, !.y = ny ],
          log |-> [ id |-> p.id, x0 |-> p.x, y0 |-> p.y,
                    driftX |-> bx, driftY |-> by,
                    dx |-> dx, dy |-> dy, dist |-> dist, force |-> force,
                    forcedX |-> fx, forcedY |-> fy,
                    oscillateX |-> oscillateX, oscillateY |-> oscillateY,
                    drawX |-> nx + oscillateX, drawY |-> ny + oscillateY,
                    size |-> p.size, amplitude |-> p.amplitude,
                    width |-> w * Unit, height |-> h * Unit ] ]

\* the engine object
Engine ==
    [ isRunning |-> isRunning, time |-> time, mouse |-> mouse,
      particles |-> particles, width |-> width, height |-> height,
      pending |-> pending, ptrLog |-> ptrLog, trace |-> trace ]

\* animate() without the early return of line 95
animateUnguarded(e) ==
    LET t == e.time + 1
        m == SmoothFollow(e.mouse)
        upd == [ i \in 1 .. Len(e.particles) |->
                   UpdateParticle(e.particles[i], m, t, e.width, e.height) ]
    IN  [ e EXCEPT !.time = t,
                   !.mouse = m,
                   !.particles = [ i \in 1 .. Len(e.particles) |-> upd[i].particle ],
                   !.trace = [ i \in 1 .. Len(e.particles) |-> upd[i].log ],
                   !.ptrLog = e.mouse,
                   !.pending = @ + 1 ]

\* animate() moving the particles by the smoothed pointer of the tick before
animateStalePointer(e) ==
    IF ~e.isRunning THEN e
    ELSE LET t == e.time + 1
             upd == [ i \in 1 .. Len(e.particles) |->
                        UpdateParticle(e.particles[i], e.mouse, t, e.width, e.height) ]
         IN  [ e EXCEPT !.time = t,
                        !.mouse = SmoothFollow(e.mouse),
                        !.particles = [ i \in 1 .. Len(e.particles) |-> upd[i].particle ],
                        !.trace = [ i \in 1 .. Len(e.particles) |-> upd[i].log ],
                        !.ptrLog = e.mouse,
                        !.pending = @ + 1 ]

\* animate() with a drift that is halved on every tick
animateDamps(e) ==
    IF ~e.isRunning THEN e
    ELSE LET a == animateUnguarded(e)
         IN  [ a EXCEPT !.particles =
                 [ i \in 1 .. Len(a.particles) |->
                     [ a.particles[i] EXCEPT !.speedX = Round(@, 2),
                                             !.speedY = Round(@, 2) ] ] ]

\* animate() without the requestAnimationFrame of line 164
animateOnce(e) ==
    IF ~e.isRunning THEN e
    ELSE [ animateUnguarded(e) EXCEPT !.pending = e.pending ]

\* animate() requesting the next frame before the test of line 95
animateRequestsFirst(e) ==
    IF ~e.isRunning THEN [ e EXCEPT !.pending = @ + 1 ]
    ELSE animateUnguarded(e)

\* animate() (lines 94-165) applied to engine e
animate(e) ==
    IF ~e.isRunning THEN e
    ELSE LET t == e.time + 1
             m == SmoothFollow(e.mouse)
             upd == [ i \in 1 .. Len(e.particles) |->
                        UpdateParticle(e.particles[i], m, t, e.width, e.height) ]
         IN  [ e EXCEPT !.time = t,
                        !.mouse = m,
                        !.particles = [ i \in 1 .. Len(e.particles) |-> upd[i].particle ],
                        !.trace = [ i \in 1 .. Len(e.particles) |-> upd[i].log ],
                        !.ptrLog = e.mouse,
                        !.pending = @ + 1 ]

\* the engine fields after a handler
Store(e) ==
    /\ isRunning' = e.isRunning
    /\ time' = e.time
    /\ mouse' = e.mouse
    /\ particles' = e.particles
    /\ width' = e.width
    /\ height' = e.height
    /\ pending' = e.pending
    /\ ptrLog' = e.ptrLog
    /\ trace' = e.trace

----------------------------------------------------------------------------
(* The document around the engine *)

\* the document after DOMContentLoaded with .hero-bg present: one engine,
\* with its canvas, was constructed (lines 183-189, 8-11)
EngineMounted ==
    [ ready |-> TRUE, heroBg |-> TRUE, engines |-> 1, canvases |-> 1, error |-> FALSE ]

\* the mobile menu before any of its handlers ran: button and menu without
\* the class 'active', the body scrollable
MenuClosed ==
    [ btnActive |-> FALSE, menuActive |-> FALSE, overflow |-> "",
      ariaExpanded |-> "false", last |-> "none" ]

\* a counter element that has not been animated: no interval timer, the
\* locals of animateCounter not yet bound
CounterUnobserved ==
    [ dataCount |-> << "0" >>, textContent |-> << "0" >>, timer |-> "none",
      target |-> 0, step |-> 0, current |-> 0 ]

----------------------------------------------------------------------------
(* Construction *)

\* the engine after lines 8-30 (fields set, init() and bindEvents() done)
Constructed(c, draws) ==
    LET m0 == [ x |-> 0, y |-> 0, targetX |-> 0, targetY |-> 0 ]
    IN  [ isRunning |-> TRUE, time |-> 0, mouse |-> m0,
          particles |-> createParticles(c.offsetWidth, c.offsetHeight, draws, 0),
          width |-> c.offsetWidth, height |-> c.offsetHeight,
          pending |-> 0,
          ptrLog |-> m0,
          trace |-> << >> ]

\* the state in which engine e exists
Load(e) ==
    /\ isRunning = e.isRunning
    /\ time = e.time
    /\ mouse = e.mouse
    /\ particles = e.particles
    /\ width = e.width
    /\ height = e.height
    /\ pending = e.pending
    /\ ptrLog = e.ptrLog
    /\ trace = e.trace

\* new LiquidBackground(container): the constructor ends with animate()
Init ==
    /\ container \in Dims
    /\ hidden \in BOOLEAN
    /\ \E draws \in RandomRuns :
          Load(animate(Constructed(container, draws)))
    /\ epoch = 0
    /\ imageData = << >>
    /\ written = {}
    /\ page = EngineMounted
    /\ menu = MenuClosed
    /\ counter = CounterUnobserved

----------------------------------------------------------------------------
(* Event handlers *)

\* a tick may be taken within the explored horizon
CanRun(e, maxTime, maxPending) ==
    e.isRunning => (e.time < maxTime /\ e.pending < maxPending)

\* a mousemove handler that also moves the smoothed pointer
MouseMoveSnaps(p) ==
    /\ mouse' = [ x |-> p.clientX * Unit, y |-> p.clientY * Unit,
                  targetX |-> p.clientX * Unit, targetY |-> p.clientY * Unit ]
    /\ UNCHANGED <<container, hidden, width, height, particles, time, isRunning,
                   pending, epoch, ptrLog, trace, imageData, written,
                   page, menu, counter>>

\* mousemove (lines 68-71)
MouseMove(p) ==
    /\ mouse' = [ mouse EXCEPT !.targetX = p.clientX * Unit,
                               !.targetY = p.clientY * Unit ]
    /\ UNCHANGED <<container, hidden, width, height, particles, time, isRunning,
                   pending, epoch, ptrLog, trace, imageData, written,
                   page, menu, counter>>

\* touchmove (lines 74-79)
TouchMove(touches) ==
    /\ mouse' = IF Len(touches) > 0
                THEN [ mouse EXCEPT !.targetX = touches[1].clientX * Unit,
                                    !.targetY = touches[1].clientY * Unit ]
                ELSE mouse
    /\ UNCHANGED <<container, hidden, width, height, particles, time, isRunning,
                   pending, epoch, ptrLog, trace, imageData, written,
                   page, menu, counter>>

\* resize (lines 82-85): the container has size c when the handler runs;
\* assigning canvas.width (line 42) clears the canvas
Resize(c, draws) ==
    /\ container' = c
    /\ width' = c.offsetWidth
    /\ height' = c.offsetHeight
    /\ particles' = createParticles(c.offsetWidth, c.offsetHeight, draws, 1 - epoch)
    /\ epoch' = 1 - epoch
    /\ trace' = << >>
    /\ UNCHANGED <<hidden, mouse, time, isRunning, pending, ptrLog,
                   imageData, written, page, menu, counter>>

\* a visibilitychange handler that restarts the loop whatever document.hidden is
VisibilityChangeAlwaysRuns ==
    /\ hidden' = ~hidden
    /\ LET e == [ Engine EXCEPT !.isRunning = TRUE ]
           after == animate(e)
       IN  /\ CanRun(e, MaxTicks, MaxPending)
           /\ Store(after)
    /\ UNCHANGED <<container, epoch, imageData, written, page, menu, counter>>

\* visibilitychange (lines 88-91): document.hidden has just changed
VisibilityChange ==
    /\ hidden' = ~hidden
    /\ LET e == [ Engine EXCEPT !.isRunning = ~hidden' ]
           after == animate(e)
       IN  /\ CanRun(e, MaxTicks, MaxPending)
           /\ Store(after)
    /\ UNCHANGED <<container, epoch, imageData, written, page, menu, counter>>

\* a requested frame callback fires (line 164): () => this.animate()
FrameWithin(maxTime) ==
    /\ pending > 0
    /\ LET e == [ Engine EXCEPT !.pending = @ - 1 ]
           after == animate(e)
       IN  /\ CanRun(e, maxTime, MaxPending)
           /\ Store(after)
    /\ UNCHANGED <<container, hidden, epoch, imageData, written, page, menu, counter>>

Frame == FrameWithin(MaxTicks)

Next ==
    \/ \E p \in Points : MouseMove(p)
    \/ \E touches \in TouchLists : TouchMove(touches)
    \/ \E c \in Dims : \E draws \in RandomRuns : Resize(c, draws)
    \/ VisibilityChange
    \/ Frame

Spec == Init /\ [][Next]_vars

----------------------------------------------------------------------------
(* Claims about the engine's handlers (checked under Spec) *)

\* the particle objects that exist before and after a step have not moved
NoParticleMoved ==
    \A i \in DOMAIN particles : \A j \in DOMAIN particles' :
        particles[i].id = particles'[j].id =>
            /\ particles'[j].x = particles[i].x
            /\ particles'[j].y = particles[i].y

\* C1: while the engine is paused (from the visibility-lost notification to
\* the next visibility-restored one) no step, whether a frame callback, a
\* pointer or touch event or a resize, changes the position of a particle.
C1_PausedParticlesKeepPosition ==
    [][ (~isRunning /\ ~isRunning') => NoParticleMoved ]_vars

\* C1 witness: paused, the outstanding frame callback has fired, the pointer
\* target has been moved and the particle set has been recreated by a resize.
C1_Witness ==
    /\ ~isRunning
    /\ pending = 0
    /\ mouse.targetX # 0
    /\ epoch = 1

\* C2: the engine is created Running; a visibility notification leaves it
\* Running exactly when the document is visible; every other step (pointer,
\* touch, resize, frame callback) leaves the lifecycle state as it was.
C2_Lifecycle ==
    /\ isRunning = TRUE
    /\ [][ /\ hidden' # hidden => isRunning' = ~hidden'
           /\ hidden' = hidden => isRunning' = isRunning ]_vars

\* C2 witness: hidden and Paused, after a resize and a pointer event.
C2_Witness ==
    /\ hidden
    /\ ~isRunning
    /\ epoch = 1
    /\ mouse.targetX # 0

\* C3: the particle set always holds exactly particleCount particles.
C3_ParticleCount == Len(particles) = particleCount

\* C3 witness: after a recreation and a later tick.
C3_Witness ==
    /\ epoch = 1
    /\ trace # << >>
    /\ time = MaxTicks
    /\ Len(particles) = particleCount

\* the steps that write the raw pointer target
TargetWritten ==
    mouse'.targetX # mouse.targetX \/ mouse'.targetY # mouse.targetY

\* C8: a step that writes the raw pointer target (a pointer-moved or
\* touch-moved event) changes nothing else: not the smoothed pointer, the
\* particles, the time accumulator, the lifecycle state, the viewport or the
\* canvas, and it neither runs a tick nor requests a frame; the smoothed
\* pointer changes only in steps that run a tick.
C8_PointerEventsOnlySetTarget ==
    [][ /\ TargetWritten =>
              /\ mouse'.x = mouse.x
              /\ mouse'.y = mouse.y
              /\ UNCHANGED <<particles, time, isRunning, pending, width, height,
                             trace, hidden, epoch>>
        /\ (mouse'.x # mouse.x \/ mouse'.y # mouse.y) =>
              /\ time' = time + 1
              /\ ~TargetWritten ]_vars

\* C8 witness: the target was written twice (the last write is the one kept)
\* since the tick of the constructor, and the smoothed pointer is where it was.
C8_Witness ==
    /\ time = 1
    /\ mouse.targetX = 150 * Unit
    /\ mouse.targetY = 60 * Unit
    /\ mouse.x = 0
    /\ mouse.y = 0
    /\ pending = 1

\* the steps in which the resize handler ran
Resized == epoch' # epoch

\* C9: a resize, Running or Paused, sets the viewport to the container's
\* size and replaces the particle set: particleCount particles, none of them
\* an object of the old set, each positioned inside the new viewport; the
\* lifecycle state is not changed.
C9_ResizeRecreates ==
    [][ Resized =>
          /\ width' = container'.offsetWidth
          /\ height' = container'.offsetHeight
          /\ Len(particles') = particleCount
          /\ \A j \in DOMAIN particles' :
                /\ \A i \in DOMAIN particles : particles'[j].id # particles[i].id
                /\ 0 <= particles'[j].x /\ particles'[j].x <= width' * Unit
                /\ 0 <= particles'[j].y /\ particles'[j].y <= height' * Unit
          /\ isRunning' = isRunning
          /\ time' = time ]_vars

\* C9 witness: a resize to the wide viewport while Paused, before any later tick.
C9_Witness ==
    /\ epoch = 1
    /\ ~isRunning
    /\ trace = << >>
    /\ width = 320
    /\ \E j \in DOMAIN particles : particles[j].x > 200 * Unit

----------------------------------------------------------------------------
(* One tick from any state of the particle field.  The states Spec reaches  *)
(* within MaxTicks keep every particle near where it was created; here the  *)
(* tick starts from particles anywhere in the range the wrap keeps them in. *)

\* where a particle is when the tick starts
Places == << "created", "low", "high", "origin" >>

Placed(p, place, w, h) ==
    CASE place = "created" -> p
      [] place = "low"     -> [ p EXCEPT !.x = -p.size, !.y = -p.size ]
      [] place = "high"    -> [ p EXCEPT !.x = w * Unit + p.size, !.y = h * Unit + p.size ]
      [] place = "origin"  -> [ p EXCEPT !.x = 0, !.y = 0 ]

\* this.mouse when the tick starts
TickMice ==
    { [ x |-> 0, y |-> 0, targetX |-> 0, targetY |-> 0 ],
      [ x |-> 0, y |-> 0, targetX |-> 1000 * Unit, targetY |-> 1000 * Unit ],
      [ x |-> 6000 * Unit, y |-> 60 * Unit, targetX |-> 150 * Unit, targetY |-> 60 * Unit ] }

\* this.time when the tick starts
TickTimes == { 0, 155 }

\* ticks are followed up to this time
MaxTickTime == 158

TickInit ==
    /\ container \in Dims
    /\ hidden = FALSE
    /\ width = container.offsetWidth
    /\ height = container.offsetHeight
    /\ isRunning = TRUE
    /\ time \in TickTimes
    /\ mouse \in TickMice
    /\ \E draws \in RandomRuns : \E k \in 1 .. Len(Places) :
          particles = [ i \in 1 .. particleCount |->
                          Placed(createParticles(width, height, draws, 0)[i],
                                 Places[((k + i) % Len(Places)) + 1], width, height) ]
    /\ pending = 1
    /\ epoch = 0
    /\ ptrLog = mouse
    /\ trace = << >>
    /\ imageData = << >>
    /\ written = {}
    /\ page = EngineMounted
    /\ menu = MenuClosed
    /\ counter = CounterUnobserved

TickFrame == FrameWithin(MaxTickTime)

TickNext == TickFrame

SpecTick == TickInit /\ [][TickNext]_vars

----------------------------------------------------------------------------
(* Claims about one tick (checked under SpecTick) *)

\* C4 as stated: every glow is drawn within [-size, width + size] by
\* [-size, height + size].
C4_RenderedWithinWrapBounds ==
    \A i \in DOMAIN trace :
        /\ -trace[i].size <= trace[i].drawX
        /\ trace[i].drawX <= trace[i].width + trace[i].size
        /\ -trace[i].size <= trace[i].drawY
        /\ trace[i].drawY <= trace[i].height + trace[i].size

\* C4 amended: every glow is drawn within the wrap bounds widened by the
\* particle's oscillation amplitude: [-size - amplitude, width + size +
\* amplitude] by [-size - amplitude, height + size + amplitude].
C4_RenderedWithinAmplitudeOfWrapBounds ==
    \A i \in DOMAIN trace :
        /\ -trace[i].size - trace[i].amplitude <= trace[i].drawX
        /\ trace[i].drawX <= trace[i].width + trace[i].size + trace[i].amplitude
        /\ -trace[i].size - trace[i].amplitude <= trace[i].drawY
        /\ trace[i].drawY <= trace[i].height + trace[i].size + trace[i].amplitude

\* C4 witness: a glow drawn beyond width + size, after a wrap of that particle.
C4_Witness ==
    \E i \in DOMAIN trace :
        /\ trace[i].drawX > trace[i].width + trace[i].size
        /\ \E j \in DOMAIN trace : trace[j].forcedX > trace[j].width + trace[j].size

\* the particles of the last tick that have no base drift and lie within the
\* influence radius, off the smoothed pointer
Attracted(l) ==
    /\ l.driftX = l.x0
    /\ l.driftY = l.y0
    /\ 0 < l.dist
    /\ l.dist < maxDist * Unit

\* the scenario: viewport 200 x 200, particle at (0, 0) without drift, pointer
\* at (0, 0) with target (1000, 1000), hence smoothed to (50, 50) by the tick
Scenario(l) ==
    /\ l.width = 200 * Unit /\ l.height = 200 * Unit
    /\ l.x0 = 0 /\ l.y0 = 0
    /\ l.driftX = 0 /\ l.driftY = 0
    /\ l.dx = 50 * Unit /\ l.dy = 50 * Unit
    /\ mouse.targetX = 1000 * Unit /\ mouse.targetY = 1000 * Unit

\* C5 as stated: a particle without drift within the radius moves strictly
\* toward the pointer (before the wrap).
C5_MovesTowardPointer ==
    \A i \in DOMAIN trace :
        Attracted(trace[i]) =>
            /\ trace[i].dx > 0 => trace[i].forcedX > trace[i].x0
            /\ trace[i].dx < 0 => trace[i].forcedX < trace[i].x0
            /\ trace[i].dy > 0 => trace[i].forcedY > trace[i].y0
            /\ trace[i].dy < 0 => trace[i].forcedY < trace[i].y0

\* C5 amended: a particle without drift within the radius is moved away from
\* the pointer, never toward it (each component of the displacement is zero
\* or opposite in sign to pointer - position); in the scenario both deltas
\* are strictly negative.
C5_MovesAwayFromPointer ==
    \A i \in DOMAIN trace :
        /\ Attracted(trace[i]) =>
              /\ trace[i].dx >= 0 => trace[i].forcedX <= trace[i].x0
              /\ trace[i].dx <= 0 => trace[i].forcedX >= trace[i].x0
              /\ trace[i].dy >= 0 => trace[i].forcedY <= trace[i].y0
              /\ trace[i].dy <= 0 => trace[i].forcedY >= trace[i].y0
        /\ Scenario(trace[i]) =>
              /\ Attracted(trace[i])
              /\ trace[i].forcedX < 0
              /\ trace[i].forcedY < 0

\* C5 witness: the scenario, after its tick.
C5_Witness ==
    /\ time = 1
    /\ \E i \in DOMAIN trace : Scenario(trace[i]) /\ trace[i].forcedX < 0

\* C6: the force factor (a fraction of maxDist * Unit) is zero at dist >=
\* maxDist, where the tick moves the particle by its drift and the wrap only;
\* below maxDist it is positive, strictly larger at a smaller dist, and 1 at
\* dist = 0.
C6_ForceProfile ==
    \A i \in DOMAIN trace :
        /\ trace[i].dist >= maxDist * Unit =>
              /\ trace[i].force = 0
              /\ trace[i].forcedX = trace[i].driftX
              /\ trace[i].forcedY = trace[i].driftY
        /\ trace[i].dist < maxDist * Unit => trace[i].force > 0
        /\ trace[i].dist = 0 => trace[i].force = maxDist * Unit
        /\ \A j \in DOMAIN trace :
              (trace[i].dist < trace[j].dist /\ trace[j].dist < maxDist * Unit)
                  => trace[i].force > trace[j].force

\* C6 witness: in one tick, a particle on the pointer (factor 1), one within
\* the radius and one beyond it.
C6_Witness ==
    \E i \in DOMAIN trace : \E j \in DOMAIN trace :
        /\ trace[i].dist = 0
        /\ trace[i].force = maxDist * Unit
        /\ trace[j].dist >= maxDist * Unit
        /\ trace[j].force = 0

\* C6 further case: two particles within the radius at different distances.
C6_WitnessPair ==
    \E i \in DOMAIN trace : \E j \in DOMAIN trace :
        /\ 0 < trace[i].dist
        /\ trace[i].dist < trace[j].dist
        /\ trace[j].dist < maxDist * Unit

----------------------------------------------------------------------------
(* Pointer smoothing toward a target held constant (SpecSmooth).  The       *)
(* targets are far from the pointer, so that a millionth of the initial     *)
(* distance is still many units of the fixed-point representation.          *)

\* raw target coordinates, in units
SmoothTargets == { 0, 100000000, -200000000, 400000000 }

SmoothInit ==
    /\ container = [offsetWidth |-> 200, offsetHeight |-> 200]
    /\ hidden = FALSE
    /\ \E draws \in RandomRuns : \E tx \in SmoothTargets : \E ty \in SmoothTargets :
          LET e == Constructed(container, draws)
          IN  Load([ e EXCEPT !.mouse.targetX = tx, !.mouse.targetY = ty,
                              !.pending = 1 ])
    /\ epoch = 0
    /\ imageData = << >>
    /\ written = {}
    /\ page = EngineMounted
    /\ menu = MenuClosed
    /\ counter = CounterUnobserved

SmoothFrame == FrameWithin(MaxSmoothTicks)

SmoothNext == SmoothFrame

SpecSmooth == SmoothInit /\ [][SmoothNext]_vars

\* distance left on one axis: target, smoothed coordinate
Left(target, v) == Abs(target - v)

\* one axis after a tick, given the coordinate before it (prev), the
\* coordinate after it (cur) and the target, which was set at tick 0 with the
\* smoothed coordinate at 0: the distance has strictly decreased without
\* passing the target, and after `ticks` ticks it is below 1e-6 of the
\* initial distance
AxisConverges(target, prev, cur, ticks) ==
    (target # 0 /\ time >= 1) =>
        /\ Left(target, cur) < Left(target, prev)
        /\ prev < target => cur <= target
        /\ prev > target => cur >= target
        /\ time >= ticks => Left(target, cur) < Abs(target) \div 1000000

\* C7 as stated: the distance strictly decreases on every tick without
\* overshoot and is below 1e-6 of the initial distance within 200 ticks.
C7_ConvergesWithin200 ==
    /\ AxisConverges(mouse.targetX, ptrLog.x, mouse.x, 200)
    /\ AxisConverges(mouse.targetY, ptrLog.y, mouse.y, 200)

\* C7 amended: the distance strictly decreases on every tick without
\* overshoot until it is below 1e-6 of the initial distance, which takes 270
\* ticks: after 200 ticks it is still above 1e-5 of the initial distance.
C7_ConvergesWithin270 ==
    /\ AxisConverges(mouse.targetX, ptrLog.x, mouse.x, 270)
    /\ AxisConverges(mouse.targetY, ptrLog.y, mouse.y, 270)
    /\ (mouse.targetX # 0 /\ time <= 200) =>
          Left(mouse.targetX, mouse.x) > Abs(mouse.targetX) \div 100000
    /\ (mouse.targetY # 0 /\ time <= 200) =>
          Left(mouse.targetY, mouse.y) > Abs(mouse.targetY) \div 100000

\* C7 witness: tick 270, the pointer short of the target by less than 1e-6 of
\* the initial distance on both axes.
C7_Witness ==
    /\ time = 270
    /\ mouse.targetX = 400000000
    /\ mouse.targetY = -200000000
    /\ mouse.x < mouse.targetX
    /\ mouse.targetX - mouse.x < 400
    /\ mouse.y > mouse.targetY
    /\ mouse.y - mouse.targetY < 200

----------------------------------------------------------------------------
(* addNoise on a pixel buffer (SpecNoise).  The buffer is that of a canvas  *)
(* one pixel high: 4 bytes per pixel, indices from 0 as in the source.      *)

\* noise = (Math.random() - 0.5) * 8, in tenths
NoiseTenths == { -40, -5, 5, 15, 39 }

\* ToUint8Clamp of a value given in tenths: the nearest integer, ties to
\* even, clamped to 0 .. 255 (the conversion of a Uint8ClampedArray store)
ToUint8Clamp(tenths) ==
    LET q == tenths \div 10
        r == tenths % 10
        n == IF r < 5 THEN q
             ELSE IF r > 5 THEN q + 1
             ELSE IF q % 2 = 0 THEN q ELSE q + 1
    IN  IF n < 0 THEN 0 ELSE IF n > 255 THEN 255 ELSE n

\* Math.max(0, Math.min(255, v)), in tenths
ClampTenths(v) ==
    LET low == IF v < 2550 THEN v ELSE 2550
    IN  IF low > 0 THEN low ELSE 0

\* a loop that runs while i <= data.length
LoopStartsInclusive(len) == { i \in 0 .. len : i % 16 = 0 }

\* the values of i for which the loop body runs (line 172)
LoopStarts(len) == { i \in 0 .. len - 1 : i % 16 = 0 }

\* the indices the loop assigns (lines 174-176)
Assigned(len) == UNION { { i, i + 1, i + 2 } : i \in LoopStarts(len) }

\* the buffer after the loop; noise[i] is the noise drawn in the iteration
\* that starts at i.  A store past the end of a typed array has no effect.
NoisyData(data, noise) ==
    [ k \in 1 .. Len(data) |->
        IF k - 1 \in Assigned(Len(data))
        THEN ToUint8Clamp(ClampTenths(data[k] * 10 + noise[(k - 1) - ((k - 1) % 16)]))
        ELSE data[k] ]

\* addNoise() (lines 167-180)
AddNoise(noise) ==
    /\ written = {}
    /\ imageData' = NoisyData(imageData, noise)
    /\ written' = Assigned(Len(imageData))
    /\ UNCHANGED <<container, hidden, width, height, particles, mouse, time,
                   isRunning, pending, epoch, ptrLog, trace, page, menu, counter>>

\* pixel buffers: all zero, all 255, mixed
Buffers(pixels) ==
    { [ k \in 1 .. 4 * pixels |-> 0 ],
      [ k \in 1 .. 4 * pixels |-> 255 ],
      [ k \in 1 .. 4 * pixels |-> (k * 37) % 256 ] }

NoiseInit ==
    /\ \E pixels \in 0 .. MaxPixels :
          /\ container = [offsetWidth |-> pixels, offsetHeight |-> 1]
          /\ imageData \in Buffers(pixels)
    /\ hidden = FALSE
    /\ Load(Constructed(container, CHOOSE draws \in RandomRuns : TRUE))
    /\ epoch = 0
    /\ written = {}
    /\ page = EngineMounted
    /\ menu = MenuClosed
    /\ counter = CounterUnobserved

NoiseNext == \E noise \in [ LoopStarts(Len(imageData)) -> NoiseTenths ] : AddNoise(noise)

SpecNoise == NoiseInit /\ [][NoiseNext]_vars

\* the indices addNoise samples: the three colour channels of every fourth pixel
Sampled(i) == i % 16 \in { 0, 1, 2 }

\* C10: addNoise keeps the length of the buffer, leaves every channel within
\* 0 .. 255, leaves every channel it does not sample (the alpha channels and
\* the pixels outside every fourth one) as it was, so 0 in a buffer of zeros,
\* and assigns no index outside the buffer.
C10_GrainOverlay ==
    [][ /\ Len(imageData') = Len(imageData)
        /\ \A k \in DOMAIN imageData' :
              /\ 0 <= imageData'[k] /\ imageData'[k] <= 255
              /\ ~Sampled(k - 1) => imageData'[k] = imageData[k]
              /\ (\A j \in DOMAIN imageData : imageData[j] = 0) =>
                    (~Sampled(k - 1) => imageData'[k] = 0)
        /\ \A i \in written' : i >= 0 /\ i < Len(imageData) /\ Sampled(i) ]_vars

\* C10 witness: a buffer that was all zero, after addNoise: two sampled
\* pixels changed, the channels between them still 0.
C10_Witness ==
    /\ Len(imageData) >= 20
    /\ written # {}
    /\ imageData[1] = 4
    /\ imageData[17] = 2
    /\ \A k \in DOMAIN imageData : ~Sampled(k - 1) => imageData[k] = 0

----------------------------------------------------------------------------
(* Mounting (SpecMount): the document from before DOMContentLoaded on *)

\* the engine fields while no engine exists
NoEngine ==
    LET m0 == [ x |-> 0, y |-> 0, targetX |-> 0, targetY |-> 0 ]
    IN  [ isRunning |-> FALSE, time |-> 0, mouse |-> m0, particles |-> << >>,
          width |-> 0, height |-> 0, pending |-> 0, ptrLog |-> m0, trace |-> << >> ]

\* the size read from a document without .hero-bg: there is none
NoContainer == [ offsetWidth |-> 0, offsetHeight |-> 0 ]

\* a DOMContentLoaded handler without the test of line 185: with a null
\* container the constructor creates the canvas (line 9) and throws at line 11
DOMContentLoadedUnguarded ==
    /\ ~page.ready
    /\ IF page.heroBg
       THEN /\ \E draws \in RandomRuns : Store(animate(Constructed(container, draws)))
            /\ page' = [ page EXCEPT !.ready = TRUE, !.engines = @ + 1,
                                     !.canvases = @ + 1 ]
       ELSE /\ page' = [ page EXCEPT !.ready = TRUE, !.canvases = @ + 1,
                                     !.error = TRUE ]
            /\ UNCHANGED <<isRunning, time, mouse, particles, width, height,
                           pending, ptrLog, trace>>
    /\ UNCHANGED <<container, hidden, epoch, imageData, written, menu, counter>>

\* DOMContentLoaded (lines 183-189); the event is dispatched once per document
DOMContentLoaded ==
    /\ ~page.ready
    /\ IF page.heroBg
       THEN /\ \E draws \in RandomRuns : Store(animate(Constructed(container, draws)))
            /\ page' = [ page EXCEPT !.ready = TRUE, !.engines = @ + 1,
                                     !.canvases = @ + 1 ]
       ELSE /\ page' = [ page EXCEPT !.ready = TRUE ]
            /\ UNCHANGED <<isRunning, time, mouse, particles, width, height,
                           pending, ptrLog, trace>>
    /\ UNCHANGED <<container, hidden, epoch, imageData, written, menu, counter>>

\* a visibilitychange of a document in which no engine has bound a handler
Unhandled ==
    /\ page.engines = 0
    /\ hidden' = ~hidden
    /\ UNCHANGED <<container, width, height, particles, mouse, time, isRunning,
                   pending, epoch, ptrLog, trace, imageData, written,
                   page, menu, counter>>

MountInit ==
    /\ \E present \in BOOLEAN :
          /\ page = [ ready |-> FALSE, heroBg |-> present, engines |-> 0,
                      canvases |-> 0, error |-> FALSE ]
          /\ IF present THEN container \in Dims ELSE container = NoContainer
    /\ hidden \in BOOLEAN
    /\ Load(NoEngine)
    /\ epoch = 0
    /\ imageData = << >>
    /\ written = {}
    /\ menu = MenuClosed
    /\ counter = CounterUnobserved

\* the handlers of bindEvents() and the frame callback exist once an engine does
MountNext ==
    \/ DOMContentLoaded
    \/ Unhandled
    \/ (page.engines > 0 /\ Next)

SpecMount == MountInit /\ [][MountNext]_vars

\* C11: no error is raised; without .hero-bg nothing is ever built, bound or
\* scheduled (no engine, no canvas, no frame callback outstanding, no field
\* ever set, whatever events the document receives); with .hero-bg exactly one
\* engine with one canvas exists from DOMContentLoaded on, none before.
C11_MountOnlyWithContainer ==
    /\ ~page.error
    /\ ~page.ready => (page.engines = 0 /\ page.canvases = 0 /\ Engine = NoEngine)
    /\ (page.ready /\ ~page.heroBg) =>
          (page.engines = 0 /\ page.canvases = 0 /\ pending = 0 /\ Engine = NoEngine)
    /\ (page.ready /\ page.heroBg) =>
          (page.engines = 1 /\ page.canvases = 1 /\ Len(particles) = particleCount)

\* C11 witness: DOMContentLoaded has been handled in a document without
\* .hero-bg.
C11_Witness ==
    /\ page.ready
    /\ ~page.heroBg
    /\ page.engines = 0
    /\ pending = 0

----------------------------------------------------------------------------
(* Claims about the frame schedule (checked under Spec) *)

\* C12 as stated: at most one frame callback of the engine is outstanding,
\* whatever visibility changes and frame callbacks came before.  The engine
\* does not keep it: a callback requested before the document was hidden is
\* still outstanding when the visibilitychange handler of the return calls
\* animate(), which requests another.
C12_AtMostOneFrameOutstanding ==
    pending <= 1

\* a step that is neither a visibility change, nor a resize, nor a write of
\* the pointer target: a frame callback firing
FrameFired ==
    /\ hidden' = hidden
    /\ ~Resized
    /\ ~TargetWritten
    /\ vars' # vars

\* C13: a frame callback that fires while the engine is Paused takes itself
\* off the schedule and does nothing else: time, the smoothed pointer and
\* every particle are as before, nothing is drawn, the engine stays Paused
\* and no frame callback is requested.  Stated of the firing itself (an
\* outstanding callback can fire while Paused, and firing leaves one callback
\* fewer and the rest as it was) and of every step that can be one.
C13_PausedFrameIsNoOp ==
    /\ [](( ~isRunning /\ pending > 0 ) =>
            ENABLED ( /\ Frame
                      /\ pending' = pending - 1
                      /\ UNCHANGED <<time, mouse, particles, trace, ptrLog,
                                     isRunning, width, height>> ))
    /\ [][ (~isRunning /\ FrameFired) =>
            /\ pending' = pending - 1
            /\ UNCHANGED <<time, mouse, particles, trace, ptrLog, isRunning,
                           width, height>> ]_vars

\* C13 witness: Paused after MaxTicks ticks, every frame callback that was
\* outstanding when the document was hidden fired since.
C13_Witness ==
    /\ ~isRunning
    /\ hidden
    /\ pending = 0
    /\ time = MaxTicks
    /\ trace # << >>

----------------------------------------------------------------------------
(* Liveness of the frame schedule (SpecFair) *)

\* what a frame callback that fires does to the schedule: Running it ticks
\* and replaces itself (lines 97, 164), Paused it is consumed (line 95).  It
\* can fire whenever Frame can.
FrameRuns ==
    /\ pending > 0
    /\ isRunning => time < MaxTicks
    /\ hidden' = hidden
    /\ IF isRunning THEN time' = time + 1 /\ pending' = pending
                    ELSE time' = time /\ pending' = pending - 1

\* the host runs an outstanding frame callback at its next frame
SpecFair == Init /\ [][Next]_vars /\ WF_<<time, pending, hidden>>(FrameRuns)

----------------------------------------------------------------------------
(* Further claims about one tick (checked under SpecTick) *)

\* coordinate v is stored for a particle of the given size: within the
\* viewport extent widened by the size on both sides
Stored(v, size, extent) == -size <= v /\ v <= extent + size

\* coordinate v is what the wrap makes of coordinate f
Wrapped(f, v, size, extent) ==
    /\ f < -size => v = extent + size
    /\ f > extent + size => v = -size
    /\ Stored(f, size, extent) => v = f

\* C15: right after creation and at the end of every tick every stored
\* position lies within [-size, width + size] by [-size, height + size]; the
\* tick stores width + size for a coordinate that drift and pointer
\* displacement took below -size, -size for one they took above width +
\* size, and the coordinate itself otherwise (same for y with height).
C15_StoredPositionWrapped ==
    /\ \A i \in DOMAIN particles :
          /\ Stored(particles[i].x, particles[i].size, width * Unit)
          /\ Stored(particles[i].y, particles[i].size, height * Unit)
    /\ \A i \in DOMAIN trace :
          /\ trace[i].id = particles[i].id
          /\ Wrapped(trace[i].forcedX, particles[i].x, particles[i].size, width * Unit)
          /\ Wrapped(trace[i].forcedY, particles[i].y, particles[i].size, height * Unit)

\* C15 witness: one tick wrapped a particle from below -size to width + size
\* and another from above width + size to -size.
C15_Witness ==
    \E i, j \in DOMAIN trace :
        /\ trace[i].forcedX < -particles[i].size
        /\ particles[i].x = width * Unit + particles[i].size
        /\ trace[j].forcedX > width * Unit + particles[j].size
        /\ particles[j].x = -particles[j].size

\* reference: one coordinate of the smoothed pointer after a tick
RefPointer(v, target) == v + Round((target - v) * SmoothPercent, 100)

\* reference: the stored position <<x, y>> of particle p after a tick in
\* which the smoothed pointer has advanced to (mx, my), in a viewport of w by
\* h units: base drift, then the displacement away from the pointer computed
\* from the drifted position, then the wrap
RefPosition(p, mx, my, w, h) ==
    LET x1 == p.x + p.speedX
        y1 == p.y + p.speedY
        dx == mx - x1
        dy == my - y1
        reach == maxDist * Unit
        d == Dist(dx, dy)
        x2 == IF d < reach
              THEN x1 - Round(dx * (reach - d) * ForcePercent, 100 * reach) ELSE x1
        y2 == IF d < reach
              THEN y1 - Round(dy * (reach - d) * ForcePercent, 100 * reach) ELSE y1
        x3 == IF x2 < -p.size THEN w + p.size
              ELSE IF x2 > w + p.size THEN -p.size ELSE x2
        y3 == IF y2 < -p.size THEN h + p.size
              ELSE IF y2 > h + p.size THEN -p.size ELSE y2
    IN  << x3, y3 >>

\* C16: a tick is the reference composition, in this order: time advances by
\* the fixed step; the smoothed pointer advances toward the raw target, which
\* stays; every particle gets base drift, then the pointer displacement taken
\* from the advanced pointer and the drifted position, then the wrap, and
\* nothing else of it changes; the glow is drawn at the stored position plus
\* the oscillation offset at the advanced time, which is not stored.
C16_TickIsReferenceComposition ==
    [][ time' # time =>
          /\ time' = time + 1
          /\ mouse' = [ mouse EXCEPT !.x = RefPointer(mouse.x, mouse.targetX),
                                     !.y = RefPointer(mouse.y, mouse.targetY) ]
          /\ DOMAIN particles' = DOMAIN particles
          /\ DOMAIN trace' = DOMAIN particles
          /\ \A i \in DOMAIN particles :
                LET p == particles[i]
                    r == RefPosition(p, mouse'.x, mouse'.y, width * Unit, height * Unit)
                IN  /\ particles'[i] = [ p EXCEPT !.x = r[1], !.y = r[2] ]
                    /\ trace'[i].drawX =
                          r[1] + Round(Sin(time' + p.phase) * p.amplitude, 1000)
                    /\ trace'[i].drawY =
                          r[2] + Round(Cos(Round(time' * CosTimeTenths, 10) + p.phase)
                                          * p.amplitude, 1000) ]_vars

\* C16 witness: after a tick in which the pointer advanced, a particle
\* drifted, was displaced by the pointer and wrapped, and was drawn off its
\* stored position.
C16_Witness ==
    /\ ptrLog.x # mouse.x
    /\ \E i \in DOMAIN trace :
          /\ trace[i].driftX # trace[i].x0
          /\ trace[i].forcedX # trace[i].driftX
          /\ particles[i].x # trace[i].forcedX
          /\ trace[i].drawX # particles[i].x

----------------------------------------------------------------------------
(* Claims about the particle attributes (checked under Spec) *)

\* the palette
Palette == { colors[k] : k \in DOMAIN colors }

\* C17: every particle's color is one of the five palette entries, and a
\* particle that exists before and after a step (a tick, a pointer or touch
\* event, a visibility change) has the drift, size, color, phase and amplitude
\* (and base position) it was created with: only its position may differ.
C17_AttributesFixedAtCreation ==
    /\ [](\A i \in DOMAIN particles : particles[i].color \in Palette)
    /\ [][ \A i \in DOMAIN particles : \A j \in DOMAIN particles' :
              particles[i].id = particles'[j].id =>
                  particles'[j] = [ particles[i] EXCEPT !.x = particles'[j].x,
                                                        !.y = particles'[j].y ] ]_vars

\* C17 witness: after a recreation and a tick, a drifting particle of the
\* last palette color has moved.
C17_Witness ==
    /\ epoch = 1
    /\ \E i \in DOMAIN trace :
          /\ particles[i].id = trace[i].id
          /\ particles[i].x # trace[i].x0
          /\ particles[i].speedX # 0
          /\ particles[i].color = colors[5]

----------------------------------------------------------------------------
(* The page script (SpecPage): mobile menu and counter animation             *)
(* (src/unnamed/part_000).  Strings are sequences of one-character strings.  *)

\* the decimal digits
DigitOf ==
    [ c \in { "0", "1", "2", "3", "4", "5", "6", "7", "8", "9" } |->
        CASE c = "0" -> 0 [] c = "1" -> 1 [] c = "2" -> 2 [] c = "3" -> 3
          [] c = "4" -> 4 [] c = "5" -> 5 [] c = "6" -> 6 [] c = "7" -> 7
          [] c = "8" -> 8 [] c = "9" -> 9 ]

RECURSIVE ParseDigits(_, _, _)
ParseDigits(str, i, acc) ==
    IF i > Len(str) \/ str[i] \notin DOMAIN DigitOf THEN acc
    ELSE ParseDigits(str, i + 1, 10 * acc + DigitOf[str[i]])

\* parseInt(str, 10) of a string that starts with a digit: the value of its
\* longest prefix of digits
ParseInt(str) == ParseDigits(str, 1, 0)

RECURSIVE Decimal(_)
\* String(n) for an integer n >= 0
Decimal(n) ==
    LET c == CHOOSE d \in DOMAIN DigitOf : DigitOf[d] = n % 10
    IN  IF n < 10 THEN << c >> ELSE Append(Decimal(n \div 10), c)

\* String(b) for a boolean b, as setAttribute stores it
BoolString(b) == IF b THEN "true" ELSE "false"

\* steps (line 150)
steps == 60

\* the values Math.round(increment * step) can take, increment being
\* target / steps in floating point: the exact quotient rounded to the
\* nearest integer, ties upward; on an exact tie the floating-point product
\* may fall just short of it and round downward
MathRound(target, step) ==
    LET up == (2 * target * step + steps) \div (2 * steps)
    IN  IF (2 * target * step) % (2 * steps) = steps THEN { up - 1, up } ELSE { up }

\* Math.min
Min(a, b) == IF a < b THEN a ELSE b

\* the data-count attributes of the page
DataCounts ==
    { << "0" >>, << "1" >>, << "7" >>, << "1", "0" >>, << "4", "5" >>,
      << "1", "2", "+" >>, << "2", "5", "0" >> }

\* keys pressed
Keys == { "Escape", "Enter" }

\* what the link and Escape handlers do (lines 66-70, 77-80)
CloseMenu(m) ==
    [ m EXCEPT !.btnActive = FALSE, !.menuActive = FALSE, !.overflow = "",
               !.ariaExpanded = "false" ]

\* click on #mobile-menu-btn (lines 52-62)
MenuBtnClick ==
    /\ LET isActive == ~menu.btnActive
       IN  menu' = [ btnActive |-> isActive,
                     menuActive |-> ~menu.menuActive,
                     overflow |-> IF isActive THEN "hidden" ELSE "",
                     ariaExpanded |-> BoolString(isActive),
                     last |-> "button" ]
    /\ UNCHANGED <<container, hidden, width, height, particles, mouse, time,
                   isRunning, pending, epoch, ptrLog, trace, imageData, written,
                   page, counter>>

\* click on a .mobile-nav-link (lines 64-71)
MobileLinkClick ==
    /\ menu' = [ CloseMenu(menu) EXCEPT !.last = "link" ]
    /\ UNCHANGED <<container, hidden, width, height, particles, mouse, time,
                   isRunning, pending, epoch, ptrLog, trace, imageData, written,
                   page, counter>>

\* a keydown handler that takes the class off the menu only
KeyDownMenuOnly(key) ==
    /\ menu' = IF key = "Escape" /\ menu.menuActive
               THEN [ menu EXCEPT !.menuActive = FALSE, !.last = key ]
               ELSE [ menu EXCEPT !.last = key ]
    /\ UNCHANGED <<container, hidden, width, height, particles, mouse, time,
                   isRunning, pending, epoch, ptrLog, trace, imageData, written,
                   page, counter>>

\* keydown (lines 74-82)
KeyDown(key) ==
    /\ menu' = IF key = "Escape" /\ menu.menuActive
               THEN [ CloseMenu(menu) EXCEPT !.last = key ]
               ELSE [ menu EXCEPT !.last = key ]
    /\ UNCHANGED <<container, hidden, width, height, particles, mouse, time,
                   isRunning, pending, epoch, ptrLog, trace, imageData, written,
                   page, counter>>

\* the observer reports the counter as intersecting (lines 128-135):
\* animateCounter up to setInterval (lines 147-156); the element is
\* unobserved, so this happens once
Intersecting ==
    /\ counter.timer = "none"
    /\ counter' = [ counter EXCEPT !.target = ParseInt(counter.dataCount),
                                   !.step = 0, !.current = 0,
                                   !.timer = "running" ]
    /\ UNCHANGED <<container, hidden, width, height, particles, mouse, time,
                   isRunning, pending, epoch, ptrLog, trace, imageData, written,
                   page, menu>>

\* a test that lets the interval run one step longer
LastStepLate(step) == step > steps

\* the test of line 161
LastStep(step) == step >= steps

\* the interval callback (lines 156-165)
TimerFires ==
    /\ counter.timer = "running"
    /\ \E rounded \in MathRound(counter.target, counter.step + 1) :
          LET step == counter.step + 1
              current == Min(rounded, counter.target)
          IN  counter' = [ counter EXCEPT
                  !.step = step,
                  !.current = current,
                  !.textContent = IF LastStep(step) THEN Decimal(counter.target)
                                                   ELSE Decimal(current),
                  !.timer = IF LastStep(step) THEN "cleared" ELSE "running" ]
    /\ UNCHANGED <<container, hidden, width, height, particles, mouse, time,
                   isRunning, pending, epoch, ptrLog, trace, imageData, written,
                   page, menu>>

\* the page after initMobileMenu and initCounterAnimations, in a document
\* with the menu elements, a counter and no .hero-bg
PageInit ==
    /\ container = NoContainer
    /\ hidden = FALSE
    /\ Load(NoEngine)
    /\ epoch = 0
    /\ imageData = << >>
    /\ written = {}
    /\ page = [ ready |-> TRUE, heroBg |-> FALSE, engines |-> 0, canvases |-> 0,
                error |-> FALSE ]
    /\ menu \in { MenuClosed, [ MenuClosed EXCEPT !.ariaExpanded = "" ] }
    /\ \E d \in DataCounts :
          counter \in { [ CounterUnobserved EXCEPT !.dataCount = d ],
                        [ CounterUnobserved EXCEPT !.dataCount = d,
                                                   !.textContent = d ] }

PageNext ==
    \/ MenuBtnClick
    \/ MobileLinkClick
    \/ \E key \in Keys : KeyDown(key)
    \/ Intersecting
    \/ TimerFires

SpecPage == PageInit /\ [][PageNext]_vars

\* C18: the button's class 'active', the menu's class 'active', the body
\* scroll lock and aria-expanded = "true" hold together or not at all, after
\* any sequence of button clicks, link clicks and key presses from the closed
\* menu; right after a link click or an Escape press the menu is closed.
C18_MenuConsistent ==
    /\ menu.menuActive = menu.btnActive
    /\ (menu.overflow = "hidden") = menu.btnActive
    /\ (menu.ariaExpanded = "true") = menu.btnActive
    /\ menu.last \in { "link", "Escape" } =>
          (~menu.menuActive /\ ~menu.btnActive /\ menu.overflow = "")

\* C18 witness: the menu open (all four together) after a button click and a
\* key press other than Escape.
C18_Witness ==
    /\ menu.btnActive
    /\ menu.menuActive
    /\ menu.overflow = "hidden"
    /\ menu.ariaExpanded = "true"
    /\ menu.last = "Enter"

\* the number the counter element displays
Displayed(c) == ParseInt(c.textContent)

\* C19: for a data-count that is a non-negative integer the interval fires
\* steps (60) times and is then cleared, never more: a cleared interval
\* changes nothing; every firing displays a number that is at least the one
\* displayed by the firing before and at most the target; and when the
\* interval is cleared the element displays exactly the target.
C19_CounterReachesTarget ==
    /\ []( /\ counter.step <= steps
           /\ (counter.timer = "cleared") <=> (counter.step = steps)
           /\ counter.timer # "none" => counter.target = ParseInt(counter.dataCount)
           /\ counter.step >= 1 =>
                 /\ Displayed(counter) <= counter.target
                 /\ Displayed(counter) >= 0
                 /\ counter.textContent = Decimal(Displayed(counter))
           /\ counter.timer = "cleared" => Displayed(counter) = counter.target )
    /\ [][ (counter' # counter /\ counter.timer # "none") =>
              /\ counter.timer = "running"
              /\ counter'.step = counter.step + 1
              /\ Displayed(counter') >= counter.current
              /\ counter.step >= 1 => Displayed(counter') >= Displayed(counter) ]_vars

\* C19 witness: the interval cleared after 60 firings, the element showing
\* the target 250.
C19_Witness ==
    /\ counter.timer = "cleared"
    /\ counter.step = steps
    /\ counter.target = 250
    /\ counter.textContent = << "2", "5", "0" >>

====
